---------------------------- MODULE Spec2Model ----------------------------
(***************************************************************************)
(* finch: compile an asset directory into a C header (src/src/main.rs).    *)
(*                                                                         *)
(* Text is a sequence of fragments.  A fragment is a string: either one    *)
(* character (every character of a file name, of a number, of a hex        *)
(* literal, of file contents, every brace, comma, quote and newline of the *)
(* initializer) or a literal run copied whole from a format string of the  *)
(* source ("#ifndef ", "const char ", ...).  The text of a file is the     *)
(* concatenation of its fragments.                                         *)
(*                                                                         *)
(* File contents are sequences of bytes (0..255).  A Rust String is its    *)
(* UTF-8 byte sequence, so String::len is Len and str::replace of an ASCII *)
(* character is a replacement of that byte.                                *)
(***************************************************************************)
EXTENDS Integers, Sequences, FiniteSets, TLC

VARIABLES
    \* ---- one run of main ----
    pc,           \* position of main: "resolve", "create_h", "header",
                  \* "create_c", "impl", "exit"
    arg,          \* what Opt.directory names: "missing", "file" or "dir"
    stale,        \* whether {base}.h and {base}.c exist before the run
    dir,          \* the asset tree, children in read_dir order of the header pass
    impl_dir,     \* the same tree, children in read_dir order of the implementation pass
    c_file,       \* Opt.c_file
    output,       \* Opt.output: <<>> for None, <<name>> for Some(name)
    output_name,  \* main's output_name (<<>> until it is computed)
    handle,       \* the file `output` is open on: "none", "h" or "c"
    fs,           \* the output files: fs[f].exists, fs[f].text for f in {"h", "c"}
    exit_code,    \* -1 while running, 0 on return from main, 1 on process::exit(1)
    events,       \* history of successful File::create calls and of writes, in order
    \* ---- one asset through both passes ----
    apc,          \* "start", "declared", "done" or "panic"
    asset,        \* the file: [name, contents]
    decl,         \* text struct_fieldify wrote for it
    init,         \* text struct_fieldify_impl wrote for it
    \* ---- a C translation unit including the generated header ----
    tu_macros,    \* macros defined so far in the translation unit
    tu_log,       \* what the compiler has processed: "typedef", "extern", "definition"
    tu_includes,  \* number of #include "{base}.h" entered
    tu_line,      \* line of the header the preprocessor is at, 0 outside the header
    tu_stack,     \* the open conditionals: whether the lines under each are processed
    tu_defined_at \* include count at which the consumer defined the macro, -1 if never

vars == <<pc, arg, stale, dir, impl_dir, c_file, output, output_name, handle, fs,
          exit_code, events, apc, asset, decl, init,
          tu_macros, tu_log, tu_includes, tu_line, tu_stack, tu_defined_at>>

runVars == <<pc, arg, stale, dir, impl_dir, c_file, output, output_name, handle, fs,
             exit_code, events>>
assetVars == <<apc, asset, decl, init>>
tuVars == <<tu_macros, tu_log, tu_includes, tu_line, tu_stack, tu_defined_at>>

---------------------------------------------------------------------------
(* Bounds of the model. *)

\* Largest number of files and directories below the asset root.
MaxNodes == 3
\* Longest contents of a String asset, in bytes.
MaxStrLen == 3
\* Longest contents of a Bytes asset, in bytes (two full lines of literals and one more).
MaxBytes == 33
\* Largest number of times the translation unit includes the header.
MaxIncludes == 3

---------------------------------------------------------------------------
(* Sequences and characters. *)

RECURSIVE Flatten(_)
\* Concatenation of a sequence of sequences.
Flatten(ss) == IF ss = <<>> THEN <<>> ELSE Head(ss) \o Flatten(Tail(ss))

Digits == <<"0", "1", "2", "3", "4", "5", "6", "7", "8", "9">>
HexDigits == <<"0", "1", "2", "3", "4", "5", "6", "7", "8", "9",
               "a", "b", "c", "d", "e", "f">>
LowerCase == <<"a", "b", "c", "d", "e", "f", "g", "h", "i", "j", "k", "l", "m",
               "n", "o", "p", "q", "r", "s", "t", "u", "v", "w", "x", "y", "z">>
UpperCase == <<"A", "B", "C", "D", "E", "F", "G", "H", "I", "J", "K", "L", "M",
               "N", "O", "P", "Q", "R", "S", "T", "U", "V", "W", "X", "Y", "Z">>

\* The bytes of the model's text alphabet and the character each encodes.
\* 195 169 is the two-byte UTF-8 encoding of one character; each of the two
\* bytes is written to the output as it is.
CharOf == [b \in {9, 10, 13, 34, 44, 92, 104, 105, 110, 114, 116, 195, 169} |->
            CASE b = 9 -> "\t"
              [] b = 10 -> "\n"
              [] b = 13 -> "\r"
              [] b = 34 -> "\""
              [] b = 44 -> ","
              [] b = 92 -> "\\"
              [] b = 104 -> "h"
              [] b = 105 -> "i"
              [] b = 110 -> "n"
              [] b = 114 -> "r"
              [] b = 116 -> "t"
              [] b = 195 -> "<C3>"
              [] b = 169 -> "<A9>"]

\* The text a byte string is written as (write! of a String).
Chars(bytes) == [i \in 1..Len(bytes) |-> CharOf[bytes[i]]]

RECURSIVE Decimal(_)
\* format!("{}", n) of an unsigned integer.
Decimal(n) ==
    IF n < 10 THEN <<Digits[n + 1]>>
    ELSE Decimal(n \div 10) \o <<Digits[(n % 10) + 1]>>

\* Hex02 with the format "{:x}": no zero padding.
Hex02Unpadded(byte) ==
    IF byte < 16 THEN <<HexDigits[byte + 1]>>
    ELSE <<HexDigits[(byte \div 16) + 1], HexDigits[(byte % 16) + 1]>>

\* format!("{:02x}", byte): at least two lower-case hex digits, zero padded.
Hex02(byte) == <<HexDigits[(byte \div 16) + 1], HexDigits[(byte % 16) + 1]>>

\* char::to_uppercase on the characters file names are made of.
ToUpperChar(c) ==
    IF \E i \in 1..26 : LowerCase[i] = c
    THEN UpperCase[CHOOSE i \in 1..26 : LowerCase[i] = c]
    ELSE c

\* str::to_uppercase
to_uppercase(s) == [i \in 1..Len(s) |-> ToUpperChar(s[i])]

\* str::replace(from, to) for a one-element pattern `from` and a sequence `to`.
replace(s, from, to) ==
    Flatten([i \in 1..Len(s) |-> IF s[i] = from THEN to ELSE <<s[i]>>])

\* writeln!(output, ...): the formatted text and a newline.
writeln(text) == text \o <<"\n">>

---------------------------------------------------------------------------
(* Paths.  A file name is a sequence of characters; "<FF>" stands for a    *)
(* byte of an OsStr that is not valid Unicode.                             *)

\* Index of the last '.' of a file name, 0 when it has none.
LastDot(name) ==
    IF \E i \in 1..Len(name) : name[i] = "."
    THEN CHOOSE i \in 1..Len(name) :
            name[i] = "." /\ \A j \in (i + 1)..Len(name) : name[j] # "."
    ELSE 0

\* Whether Path::file_stem / Path::extension split the name at its last '.':
\* not when there is no '.', nor when the only '.' is the first character.
SplitsAtDot(name) == LastDot(name) > 1

\* Path::extension: <<>> for None, <<ext>> for Some(ext).
extension(name) ==
    IF SplitsAtDot(name)
    THEN <<SubSeq(name, LastDot(name) + 1, Len(name))>>
    ELSE <<>>

\* Path::file_stem (a read_dir entry always has a file name).
file_stem(name) ==
    IF SplitsAtDot(name) THEN SubSeq(name, 1, LastDot(name) - 1) ELSE name

\* OsStr::to_str: <<>> for None (not valid Unicode), <<s>> for Some(s).
to_str(s) == IF \E i \in 1..Len(s) : s[i] = "<FF>" THEN <<>> ELSE <<s>>

\* StringArm with "htm" left out of the match arm.
StringArmWithoutHtm ==
    { <<"t", "x", "t">>, <<"j", "s", "o", "n">>, <<"x", "m", "l">>,
      <<"c", "s", "v">>, <<"h", "t", "m", "l">>,
      <<"c", "s", "s">>, <<"j", "s">>, <<"m", "d">>, <<"t", "o", "m", "l">>,
      <<"r", "s">>, <<"g", "l", "s", "l">>, <<"f", "r", "a", "g">>,
      <<"v", "e", "r", "t">> }

\* The extensions of the match arm that selects AssetOutputType::String.
StringArm ==
    { <<"t", "x", "t">>, <<"j", "s", "o", "n">>, <<"x", "m", "l">>,
      <<"c", "s", "v">>, <<"h", "t", "m", "l">>, <<"h", "t", "m">>,
      <<"c", "s", "s">>, <<"j", "s">>, <<"m", "d">>, <<"t", "o", "m", "l">>,
      <<"r", "s">>, <<"g", "l", "s", "l">>, <<"f", "r", "a", "g">>,
      <<"v", "e", "r", "t">> }

\* AssetOutputType::guess_from_filepath
guess_from_filepath(name) ==
    LET ext == extension(name) IN
    IF ext # <<>>
    THEN IF to_str(ext[1]) # <<>>
         THEN IF to_str(ext[1])[1] \in StringArm THEN "String" ELSE "Bytes"
         ELSE "Bytes"
    ELSE "Bytes"

\* The field name of a path: its file stem with every '-' replaced by '_'.
FieldName(name) == replace(file_stem(name), "-", <<"_">>)

---------------------------------------------------------------------------
(* The asset tree.  A node is a file or a directory; the children of a     *)
(* directory are in the order read_dir yields them.                        *)

File(name, contents) ==
    [kind |-> "file", name |-> name, contents |-> contents, children |-> <<>>]
Dir(name, children) ==
    [kind |-> "dir", name |-> name, contents |-> <<>>, children |-> children]

\* Path::is_dir
is_dir(node) == node.kind = "dir"

---------------------------------------------------------------------------
(* The header pass. *)

RECURSIVE struct_fieldify(_)
struct_fieldify(path) ==
    LET name == FieldName(path.name) IN
    IF is_dir(path)
    THEN writeln(<<"struct {">>)
         \o Flatten([i \in 1..Len(path.children) |->
                        struct_fieldify(path.children[i])])
         \o writeln(<<"} ">> \o name \o <<";">>)
    ELSE LET output_type == guess_from_filepath(path.name)
             filesize == Len(path.contents)
         IN  IF output_type = "String"
             THEN writeln(<<"const char ">> \o name \o <<"[">>
                          \o Decimal(filesize) \o <<" + 1];">>)
                  \o writeln(<<"const size_t ">> \o name \o <<"_len;">>)
             ELSE writeln(<<"const uint8_t ">> \o name \o <<"[">>
                          \o Decimal(filesize) \o <<"];">>)
                  \o writeln(<<"const size_t ">> \o name \o <<"_len;">>)

generate_header(directory, name) ==
    writeln(<<"#ifndef ">> \o to_uppercase(name) \o <<"_H">>)
    \o writeln(<<"#define ">> \o to_uppercase(name) \o <<"_H">>)
    \o writeln(<<"#include ", "<stdint.h>">>)
    \o writeln(<<"#include ", "<stddef.h>">>)
    \o writeln(<<"#ifdef ", "__cplusplus">>)
    \o writeln(<<"extern \"C\" {">>)
    \o writeln(<<"#endif">>)
    \o writeln(<<"typedef struct {">>)
    \o Flatten([i \in 1..Len(directory.children) |->
                   struct_fieldify(directory.children[i])])
    \o writeln(<<"} __">> \o name \o <<"_t;">>)
    \o writeln(<<"extern const __">> \o name \o <<"_t ">> \o name \o <<";">>)
    \o writeln(<<"#ifdef ", "__cplusplus">>)
    \o writeln(<<"}">>)
    \o writeln(<<"#endif">>)
    \o writeln(<<"#endif">>)

---------------------------------------------------------------------------
(* The implementation pass. *)

\* const BYTES_PER_LINE
BYTES_PER_LINE == 16

\* Whether bytes b[i..] continue a well-formed UTF-8 string (what
\* read_to_string accepts).
RECURSIVE Utf8From(_, _)
Utf8From(b, i) ==
    LET n == Len(b)
        Cont(k, lo, hi) == k <= n /\ b[k] >= lo /\ b[k] <= hi
    IN  IF i > n THEN TRUE
        ELSE IF b[i] < 128 THEN Utf8From(b, i + 1)
        ELSE IF b[i] >= 194 /\ b[i] <= 223
             THEN Cont(i + 1, 128, 191) /\ Utf8From(b, i + 2)
        ELSE IF b[i] = 224
             THEN Cont(i + 1, 160, 191) /\ Cont(i + 2, 128, 191) /\ Utf8From(b, i + 3)
        ELSE IF (b[i] >= 225 /\ b[i] <= 236) \/ b[i] = 238 \/ b[i] = 239
             THEN Cont(i + 1, 128, 191) /\ Cont(i + 2, 128, 191) /\ Utf8From(b, i + 3)
        ELSE IF b[i] = 237
             THEN Cont(i + 1, 128, 159) /\ Cont(i + 2, 128, 191) /\ Utf8From(b, i + 3)
        ELSE IF b[i] = 240
             THEN Cont(i + 1, 144, 191) /\ Cont(i + 2, 128, 191)
                  /\ Cont(i + 3, 128, 191) /\ Utf8From(b, i + 4)
        ELSE IF b[i] >= 241 /\ b[i] <= 243
             THEN Cont(i + 1, 128, 191) /\ Cont(i + 2, 128, 191)
                  /\ Cont(i + 3, 128, 191) /\ Utf8From(b, i + 4)
        ELSE IF b[i] = 244
             THEN Cont(i + 1, 128, 143) /\ Cont(i + 2, 128, 191)
                  /\ Cont(i + 3, 128, 191) /\ Utf8From(b, i + 4)
        ELSE FALSE

\* std::fs::read_to_string succeeds (the file is readable: the pass has just
\* listed it) exactly when the contents are valid UTF-8.
read_to_string_ok(contents) == Utf8From(contents, 1)

\* The four escaping passes over the contents, in the order of the source.
Escaped(contents) ==
    LET c1 == replace(contents, 10, <<92, 110>>)
        c2 == replace(c1, 13, <<92, 114>>)
        c3 == replace(c2, 9, <<92, 116>>)
        c4 == replace(c3, 34, <<92, 34>>)
    IN  c4

\* The `for byte in contents` loop and the newline that closes a partial line.
RECURSIVE ByteLines(_, _, _)
ByteLines(contents, i, bytes_in_line) ==
    IF i > Len(contents)
    THEN IF bytes_in_line # 0 THEN <<"\n">> ELSE <<>>
    ELSE <<"0", "x">> \o Hex02(contents[i]) \o <<",", " ">>
         \o (IF bytes_in_line + 1 = BYTES_PER_LINE
             THEN <<"\n">> \o ByteLines(contents, i + 1, 0)
             ELSE ByteLines(contents, i + 1, bytes_in_line + 1))

\* StringInit with contents_len taken before the escaping passes.
StringInitRawLen(contents) ==
    LET escaped == Escaped(contents)
        contents_len == Len(contents)
    IN  writeln(<<"\"">> \o Chars(escaped) \o <<"\"", ",">>)
        \o writeln(Decimal(contents_len) \o <<",">>)

\* The String arm of struct_fieldify_impl.
StringInit(contents) ==
    LET escaped == Escaped(contents)
        contents_len == Len(escaped)
    IN  writeln(<<"\"">> \o Chars(escaped) \o <<"\"", ",">>)
        \o writeln(Decimal(contents_len) \o <<",">>)

\* BytesInit with the length written before the byte list.
BytesInitLenFirst(contents) ==
    LET contents_len == Len(contents)
    IN  writeln(Decimal(contents_len) \o <<",">>)
        \o writeln(<<"{">>)
        \o ByteLines(contents, 1, 0)
        \o writeln(<<"}", ",">>)

\* The Bytes arm of struct_fieldify_impl.
BytesInit(contents) ==
    LET contents_len == Len(contents)
    IN  writeln(<<"{">>)
        \o ByteLines(contents, 1, 0)
        \o writeln(<<"}", ",">>)
        \o writeln(Decimal(contents_len) \o <<",">>)

RECURSIVE struct_fieldify_impl_Unnested(_)
\* struct_fieldify_impl without the braces around the items of a directory.
struct_fieldify_impl_Unnested(path) ==
    IF is_dir(path)
    THEN Flatten([i \in 1..Len(path.children) |->
                    struct_fieldify_impl_Unnested(path.children[i])])
    ELSE IF guess_from_filepath(path.name) = "String"
         THEN StringInit(path.contents)
         ELSE BytesInit(path.contents)

RECURSIVE struct_fieldify_impl(_)
struct_fieldify_impl(path) ==
    IF is_dir(path)
    THEN writeln(<<"{">>)
         \o Flatten([i \in 1..Len(path.children) |->
                        struct_fieldify_impl(path.children[i])])
         \o writeln(<<"}", ",">>)
    ELSE LET output_type == guess_from_filepath(path.name)
         IN  IF output_type = "String"
             THEN StringInit(path.contents)
             ELSE BytesInit(path.contents)

\* generate_impl without the #undef of {BASE}_IMPLEMENTATION.
generate_impl_NoUndef(directory, name, single_file) ==
    (IF single_file
     THEN writeln(<<"#ifdef ">> \o to_uppercase(name) \o <<"_IMPLEMENTATION">>)
     ELSE writeln(<<"#include ", "\"">> \o name \o <<".h", "\"">>))
    \o writeln(<<"#include ", "<stddef.h>">>)
    \o writeln(<<"#include ", "<stdint.h>">>)
    \o writeln(<<"#ifdef ", "__cplusplus">>)
    \o writeln(<<"extern \"C\" {">>)
    \o writeln(<<"#endif">>)
    \o writeln(<<"const __">> \o name \o <<"_t ">> \o name \o <<" = ", "{">>)
    \o Flatten([i \in 1..Len(directory.children) |->
                   struct_fieldify_impl(directory.children[i])])
    \o writeln(<<"}", ";">>)
    \o writeln(<<"#ifdef ", "__cplusplus">>)
    \o writeln(<<"}">>)
    \o writeln(<<"#endif">>)
    \o (IF single_file THEN writeln(<<"#endif">>) ELSE <<>>)

generate_impl(directory, name, single_file) ==
    (IF single_file
     THEN writeln(<<"#ifdef ">> \o to_uppercase(name) \o <<"_IMPLEMENTATION">>)
     ELSE writeln(<<"#include ", "\"">> \o name \o <<".h", "\"">>))
    \o writeln(<<"#include ", "<stddef.h>">>)
    \o writeln(<<"#include ", "<stdint.h>">>)
    \o writeln(<<"#ifdef ", "__cplusplus">>)
    \o writeln(<<"extern \"C\" {">>)
    \o writeln(<<"#endif">>)
    \o writeln(<<"const __">> \o name \o <<"_t ">> \o name \o <<" = ", "{">>)
    \o Flatten([i \in 1..Len(directory.children) |->
                   struct_fieldify_impl(directory.children[i])])
    \o writeln(<<"}", ";">>)
    \o writeln(<<"#ifdef ", "__cplusplus">>)
    \o writeln(<<"}">>)
    \o writeln(<<"#endif">>)
    \o (IF single_file
        THEN writeln(<<"#undef ">> \o to_uppercase(name) \o <<"_IMPLEMENTATION">>)
             \o writeln(<<"#endif">>)
        ELSE <<>>)

---------------------------------------------------------------------------
(* The inputs of a run. *)

\* The asset directory the runs are given, and the name Opt.output may carry.
DirName == <<"a", "s", "s", "e", "t", "s">>
OutName == <<"g", "e", "n">>

\* The files asset trees are built from.
LeafFiles ==
    { File(<<"a", ".", "t", "x", "t">>, <<104, 105>>),
      File(<<"b", ".", "b", "i", "n">>, <<1, 2>>),
      File(<<"c", "-", "d", ".", "m", "d">>, <<104, 34, 10>>) }
SubName == <<"s", "u", "b">>

NoName(forest, name) == \A i \in 1..Len(forest) : forest[i].name # name

RECURSIVE Forests(_)
RECURSIVE TreesOfSize(_)
\* The sequences of nodes, of n nodes in all, no two nodes of a directory
\* bearing the same name.
Forests(n) ==
    IF n = 0 THEN {<<>>}
    ELSE UNION { UNION { { <<t>> \o g : g \in {h \in Forests(n - k) : NoName(h, t.name)} }
                         : t \in TreesOfSize(k) }
                 : k \in 1..n }
\* The nodes that hold k nodes, themselves included.
TreesOfSize(k) ==
    IF k = 1 THEN LeafFiles \cup {Dir(SubName, <<>>)}
    ELSE {Dir(SubName, f) : f \in Forests(k - 1)}

AssetTrees == {Dir(DirName, f) : f \in UNION {Forests(n) : n \in 0..MaxNodes}}

RECURSIVE Reversed(_)
\* The tree with the children of every directory in the opposite order.
Reversed(node) ==
    IF is_dir(node)
    THEN Dir(node.name,
             [i \in 1..Len(node.children) |->
                 Reversed(node.children[Len(node.children) + 1 - i])])
    ELSE node

\* The output files before the run.
InitialFs(st) ==
    [f \in {"h", "c"} |->
        [exists |-> st, text |-> IF st THEN <<"stale">> ELSE <<>>]]

\* Values of the variables a specification does not use.
IdleRun ==
    /\ pc = "idle" /\ arg = "dir" /\ stale = FALSE
    /\ dir = Dir(DirName, <<>>) /\ impl_dir = Dir(DirName, <<>>)
    /\ c_file = FALSE /\ output = <<>> /\ output_name = <<>> /\ handle = "none"
    /\ fs = InitialFs(FALSE) /\ exit_code = -1 /\ events = <<>>
IdleAsset ==
    /\ apc = "idle" /\ asset = File(<<>>, <<>>) /\ decl = <<>> /\ init = <<>>
IdleTu ==
    /\ tu_macros = {} /\ tu_log = <<>> /\ tu_includes = 0 /\ tu_line = 0
    /\ tu_stack = <<>> /\ tu_defined_at = -1

---------------------------------------------------------------------------
(* main *)

\* File::create: the file exists and is empty, the handle is at its start.
Created(files, f) == [files EXCEPT ![f] = [exists |-> TRUE, text |-> <<>>]]
\* Writes through the handle append to the file.
Written(files, f, text) == [files EXCEPT ![f].text = @ \o text]

\* Resolve without the is_dir check of lines 31-34.
ResolveNoDirCheck ==
    /\ pc = "resolve"
    /\ IF arg = "missing"
       THEN /\ pc' = "exit"
            /\ exit_code' = 1
            /\ UNCHANGED output_name
       ELSE /\ pc' = "create_h"
            /\ output_name' = IF output # <<>> THEN output[1] ELSE file_stem(dir.name)
            /\ UNCHANGED exit_code
    /\ UNCHANGED <<arg, stale, dir, impl_dir, c_file, output, handle, fs, events>>

\* Lines 21-39: parse, canonicalize, is_dir, output_name.
Resolve ==
    /\ pc = "resolve"
    /\ IF arg = "missing" \/ arg = "file"
       THEN /\ pc' = "exit"
            /\ exit_code' = 1
            /\ UNCHANGED output_name
       ELSE /\ pc' = "create_h"
            /\ output_name' = IF output # <<>> THEN output[1] ELSE file_stem(dir.name)
            /\ UNCHANGED exit_code
    /\ UNCHANGED <<arg, stale, dir, impl_dir, c_file, output, handle, fs, events>>

\* CreateHeader that, with -c, creates {output_name}.c in the same step.
CreateHeaderBothFiles ==
    /\ pc = "create_h"
    /\ \E ok \in BOOLEAN :
        IF ok
        THEN /\ fs' = IF c_file THEN Created(Created(fs, "h"), "c") ELSE Created(fs, "h")
             /\ handle' = "h"
             /\ events' = events \o (IF c_file THEN <<"create h", "create c">>
                                     ELSE <<"create h">>)
             /\ pc' = "header"
             /\ UNCHANGED exit_code
        ELSE /\ pc' = "exit"
             /\ exit_code' = 1
             /\ UNCHANGED <<fs, handle, events>>
    /\ UNCHANGED <<arg, stale, dir, impl_dir, c_file, output, output_name>>

\* Lines 41-49: File::create("{output_name}.h"), which the file system may refuse.
CreateHeader ==
    /\ pc = "create_h"
    /\ \E ok \in BOOLEAN :
        IF ok
        THEN /\ fs' = Created(fs, "h")
             /\ handle' = "h"
             /\ events' = Append(events, "create h")
             /\ pc' = "header"
             /\ UNCHANGED exit_code
        ELSE /\ pc' = "exit"
             /\ exit_code' = 1
             /\ UNCHANGED <<fs, handle, events>>
    /\ UNCHANGED <<arg, stale, dir, impl_dir, c_file, output, output_name>>

\* Line 51: generate_header(&directory, &output_name, &mut output).
GenerateHeader ==
    /\ pc = "header"
    /\ fs' = Written(fs, handle, generate_header(dir, output_name))
    /\ events' = Append(events, "write " \o handle)
    /\ pc' = "create_c"
    /\ UNCHANGED <<arg, stale, dir, impl_dir, c_file, output, output_name, handle,
                   exit_code>>

\* Lines 53-63: with -c, File::create("{output_name}.c") replaces the handle.
CreateImpl ==
    /\ pc = "create_c"
    /\ IF c_file
       THEN \E ok \in BOOLEAN :
            IF ok
            THEN /\ fs' = Created(fs, "c")
                 /\ handle' = "c"
                 /\ events' = Append(events, "create c")
                 /\ pc' = "impl"
                 /\ UNCHANGED exit_code
            ELSE /\ pc' = "exit"
                 /\ exit_code' = 1
                 /\ UNCHANGED <<fs, handle, events>>
       ELSE /\ pc' = "impl"
            /\ UNCHANGED <<fs, handle, events, exit_code>>
    /\ UNCHANGED <<arg, stale, dir, impl_dir, c_file, output, output_name>>

\* GenerateImpl that passes opt.c_file for single_file instead of !opt.c_file.
GenerateImplFlagInverted ==
    /\ pc = "impl"
    /\ fs' = Written(fs, handle, generate_impl(impl_dir, output_name, c_file))
    /\ events' = Append(events, "write " \o handle)
    /\ pc' = "exit"
    /\ exit_code' = 0
    /\ UNCHANGED <<arg, stale, dir, impl_dir, c_file, output, output_name, handle>>

\* Line 65: generate_impl(&directory, &output_name, &mut output, !opt.c_file),
\* and the return from main.
GenerateImpl ==
    /\ pc = "impl"
    /\ fs' = Written(fs, handle, generate_impl(impl_dir, output_name, ~c_file))
    /\ events' = Append(events, "write " \o handle)
    /\ pc' = "exit"
    /\ exit_code' = 0
    /\ UNCHANGED <<arg, stale, dir, impl_dir, c_file, output, output_name, handle>>

Init ==
    /\ pc = "resolve"
    /\ arg \in {"missing", "file", "dir"}
    /\ stale \in BOOLEAN
    /\ dir \in AssetTrees
    /\ impl_dir \in {dir, Reversed(dir)}
    /\ c_file \in BOOLEAN
    /\ output \in {<<>>, <<OutName>>}
    /\ output_name = <<>>
    /\ handle = "none"
    /\ fs = InitialFs(stale)
    /\ exit_code = -1
    /\ events = <<>>
    /\ IdleAsset
    /\ IdleTu

Next ==
    \/ Resolve /\ UNCHANGED <<assetVars, tuVars>>
    \/ CreateHeader /\ UNCHANGED <<assetVars, tuVars>>
    \/ GenerateHeader /\ UNCHANGED <<assetVars, tuVars>>
    \/ CreateImpl /\ UNCHANGED <<assetVars, tuVars>>
    \/ GenerateImpl /\ UNCHANGED <<assetVars, tuVars>>

Spec == Init /\ [][Next]_vars

---------------------------------------------------------------------------
(* Reading the generated C text back, as a C compiler does. *)

\* Index of the first i >= from with text[i] = frag, Len(text) + 1 if none.
IndexFrom(text, frag, from) ==
    IF \E i \in from..Len(text) : text[i] = frag
    THEN CHOOSE i \in from..Len(text) :
            text[i] = frag /\ \A j \in from..(i - 1) : text[j] # frag
    ELSE Len(text) + 1

RECURSIVE LinesFrom(_, _)
\* The lines of a text from position i on, without their newlines.
LinesFrom(text, i) ==
    IF i > Len(text) THEN <<>>
    ELSE LET e == IndexFrom(text, "\n", i)
         IN  <<SubSeq(text, i, e - 1)>> \o LinesFrom(text, e + 1)

Lines(text) == LinesFrom(text, 1)

\* Index of the first line >= from that starts with frag, Len(lines) + 1 if none.
LineStarting(lines, frag, from) ==
    LET Is(i) == lines[i] # <<>> /\ lines[i][1] = frag
    IN  IF \E i \in from..Len(lines) : Is(i)
        THEN CHOOSE i \in from..Len(lines) : Is(i) /\ \A j \in from..(i - 1) : ~Is(j)
        ELSE Len(lines) + 1

WhiteSpace == {" ", "\n", "\t", "\r"}
Punctuation == {"{", "}", ",", ";"}

RECURSIVE StringEnd(_, _)
\* Index of the quote that closes the string literal whose characters start at
\* j (a backslash takes the next character with it); Len(text) if none does.
StringEnd(text, j) ==
    IF j >= Len(text) THEN Len(text)
    ELSE IF text[j] = "\\" THEN StringEnd(text, j + 2)
    ELSE IF text[j] = "\"" THEN j
    ELSE StringEnd(text, j + 1)

RECURSIVE WordEnd(_, _)
\* Index of the last character of the word that starts at i.
WordEnd(text, i) ==
    IF i + 1 > Len(text) \/ text[i + 1] \in WhiteSpace \cup Punctuation \cup {"\""}
    THEN i
    ELSE WordEnd(text, i + 1)

RECURSIVE Tokenize(_, _)
\* The C tokens of text[i..]: braces, commas and semicolons, string literals
\* (quotes included), and words (numbers, identifiers); white space separates.
Tokenize(text, i) ==
    IF i > Len(text) THEN <<>>
    ELSE IF text[i] \in WhiteSpace THEN Tokenize(text, i + 1)
    ELSE IF text[i] \in Punctuation THEN <<<<text[i]>>>> \o Tokenize(text, i + 1)
    ELSE LET e == IF text[i] = "\"" THEN StringEnd(text, i + 1) ELSE WordEnd(text, i)
         IN  <<SubSeq(text, i, e)>> \o Tokenize(text, e + 1)

\* The C tokens of a text, line by line (no token spans two lines).
Tokens(text) ==
    LET lines == Lines(text)
    IN  Flatten([i \in 1..Len(lines) |-> Tokenize(lines[i], 1)])

\* The tokens of the initializer of `const __{base}_t {base} = {...};` in a
\* text: from its opening brace to the brace before the semicolon.
InitializerTokens(text) ==
    LET start == IndexFrom(text, "const __", 1)
        toks == Tokens(SubSeq(text, IndexFrom(text, "{", start), Len(text)))
        semi == IndexFrom(toks, <<";">>, 1)
    IN  SubSeq(toks, 1, semi - 1)

Item(k, items) == [k |-> k, items |-> items]

RECURSIVE ParseItems(_, _)
\* The items of a brace-delimited initializer list whose first item starts at
\* token i, and the index after its closing brace.  An item is a string
\* literal ("str"), a number ("num") or a nested list ("list").
ParseItems(toks, i) ==
    IF i > Len(toks) THEN [items |-> <<>>, next |-> i]
    ELSE IF toks[i] = <<"}">> THEN [items |-> <<>>, next |-> i + 1]
    ELSE IF toks[i] = <<",">> THEN ParseItems(toks, i + 1)
    ELSE IF toks[i] = <<"{">>
         THEN LET sub == ParseItems(toks, i + 1)
                  rest == ParseItems(toks, sub.next)
              IN  [items |-> <<Item("list", sub.items)>> \o rest.items,
                   next |-> rest.next]
    ELSE LET rest == ParseItems(toks, i + 1)
             k == IF toks[i][1] = "\"" THEN "str" ELSE "num"
         IN  [items |-> <<Item(k, <<>>)>> \o rest.items, next |-> rest.next]

\* The items of the outermost list of an initializer.
InitializerItems(text) == ParseItems(InitializerTokens(text), 2).items

Field(k, name, fields) == [k |-> k, name |-> name, fields |-> fields]

RECURSIVE ParseFields(_, _)
\* The fields declared by the lines of a struct body from line i on, up to
\* the line that closes the struct; the name on that line; the index after it.
ParseFields(lines, i) ==
    IF i > Len(lines) THEN [fields |-> <<>>, name |-> <<>>, next |-> i]
    ELSE LET l == lines[i] IN
    IF l[1] = "} " \/ l[1] = "} __"
    THEN [fields |-> <<>>, name |-> SubSeq(l, 2, Len(l) - 1), next |-> i + 1]
    ELSE IF l[1] = "struct {"
    THEN LET sub == ParseFields(lines, i + 1)
             rest == ParseFields(lines, sub.next)
         IN  [fields |-> <<Field("struct", sub.name, sub.fields)>> \o rest.fields,
              name |-> rest.name, next |-> rest.next]
    ELSE LET rest == ParseFields(lines, i + 1)
             f == IF l[1] = "const char "
                  THEN Field("char", SubSeq(l, 2, IndexFrom(l, "[", 1) - 1), <<>>)
                  ELSE IF l[1] = "const uint8_t "
                  THEN Field("uint8", SubSeq(l, 2, IndexFrom(l, "[", 1) - 1), <<>>)
                  ELSE IF l[1] = "const size_t "
                  THEN Field("size", SubSeq(l, 2, Len(l) - 1) \o <<"_", "l", "e", "n">>,
                             <<>>)
                  ELSE Field("other", l, <<>>)
         IN  [fields |-> <<f>> \o rest.fields, name |-> rest.name, next |-> rest.next]

\* The fields of the typedef'd struct of a header text.
HeaderFields(text) ==
    LET lines == Lines(text)
    IN  ParseFields(lines, LineStarting(lines, "typedef struct {", 1) + 1).fields

RECURSIVE Matches(_, _)
\* C's positional initialization: item i initializes field i, a char array
\* from a string literal, a uint8_t array from a list of numbers, a size_t
\* from a number, a struct from a list that matches its fields.
Matches(fields, items) ==
    /\ Len(fields) = Len(items)
    /\ \A i \in 1..Len(fields) :
        CASE fields[i].k = "char" -> items[i].k = "str"
          [] fields[i].k = "uint8" ->
                /\ items[i].k = "list"
                /\ \A j \in 1..Len(items[i].items) : items[i].items[j].k = "num"
          [] fields[i].k = "size" -> items[i].k = "num"
          [] fields[i].k = "struct" ->
                /\ items[i].k = "list"
                /\ Matches(fields[i].fields, items[i].items)
          [] OTHER -> FALSE

RECURSIVE FieldsOfLevel(_, _)
\* The fields are those of a directory level: for each child in order, a data
\* field and a length field for a file, one struct field for a subdirectory.
FieldsOfLevel(children, fields) ==
    IF children = <<>> THEN fields = <<>>
    ELSE IF is_dir(Head(children))
    THEN /\ Len(fields) >= 1
         /\ fields[1].k = "struct"
         /\ FieldsOfLevel(Head(children).children, fields[1].fields)
         /\ FieldsOfLevel(Tail(children), Tail(fields))
    ELSE /\ Len(fields) >= 2
         /\ fields[1].k \in {"char", "uint8"}
         /\ fields[2].k = "size"
         /\ FieldsOfLevel(Tail(children), SubSeq(fields, 3, Len(fields)))

RECURSIVE ItemsOfLevel(_, _)
\* The items are those of a directory level: for each child in order, a data
\* value and a length value for a file, one nested list for a subdirectory.
ItemsOfLevel(children, items) ==
    IF children = <<>> THEN items = <<>>
    ELSE IF is_dir(Head(children))
    THEN /\ Len(items) >= 1
         /\ items[1].k = "list"
         /\ ItemsOfLevel(Head(children).children, items[1].items)
         /\ ItemsOfLevel(Tail(children), Tail(items))
    ELSE /\ Len(items) >= 2
         /\ items[1].k \in {"str", "list"}
         /\ items[2].k = "num"
         /\ ItemsOfLevel(Tail(children), SubSeq(items, 3, Len(items)))

RECURSIVE Count(_, _)
\* Number of children that are directories (d = TRUE) or files (d = FALSE).
Count(children, d) ==
    IF children = <<>> THEN 0
    ELSE (IF is_dir(Head(children)) = d THEN 1 ELSE 0) + Count(Tail(children), d)

\* The run returned from main: both passes are complete.
Completed == pc = "exit" /\ exit_code = 0

---------------------------------------------------------------------------
(* Claims about a run. *)

\* C1: when read_dir gives both passes the same order, at every directory
\* level the header declares two fields per file (data, then length) and one
\* per subdirectory, the initializer has an item for each in the same order
\* (data value, length value; one nested list), and item i initializes
\* field i.
C1_FieldsMatchItems ==
    (Completed /\ impl_dir = dir) =>
        LET fields == HeaderFields(fs["h"].text)
            items == InitializerItems(fs[handle].text)
        IN  /\ Len(fields) = 2 * Count(dir.children, FALSE) + Count(dir.children, TRUE)
            /\ Len(items) = Len(fields)
            /\ FieldsOfLevel(dir.children, fields)
            /\ ItemsOfLevel(dir.children, items)
            /\ Matches(fields, items)

\* A completed run over a tree with a file before a subdirectory that holds
\* files, both passes in the same order.
C1_Witness ==
    /\ Completed /\ impl_dir = dir
    /\ Len(dir.children) = 2
    /\ ~is_dir(dir.children[1])
    /\ is_dir(dir.children[2]) /\ Len(dir.children[2].children) = 1

\* The tree of the end-to-end scenario: a.txt holding "hi", then sub/ holding
\* b.bin with the bytes 0x01 0x02.
ScenarioTree ==
    Dir(DirName,
        << File(<<"a", ".", "t", "x", "t">>, <<104, 105>>),
           Dir(SubName, << File(<<"b", ".", "b", "i", "n">>, <<1, 2>>) >>) >>)

\* The scenario ran to completion in single-file mode with base name assets.
ScenarioDone ==
    /\ Completed /\ ~c_file /\ output_name = DirName
    /\ dir = ScenarioTree /\ impl_dir = dir

\* The fields the scenario's header is to declare.
ScenarioFields ==
    << Field("char", <<"a">>, <<>>),
       Field("size", <<"a", "_", "l", "e", "n">>, <<>>),
       Field("struct", SubName,
             << Field("uint8", <<"b">>, <<>>),
                Field("size", <<"b", "_", "l", "e", "n">>, <<>>) >>) >>

\* The initializer lies between #ifdef ASSETS_IMPLEMENTATION and its #endif.
BehindImplementationMacro(text) ==
    LET lines == Lines(text)
        open == <<"#ifdef ", "A", "S", "S", "E", "T", "S", "_IMPLEMENTATION">>
        def == LineStarting(lines, "const __", 1)
    IN  /\ \E i \in 1..(def - 1) : lines[i] = open
        /\ def < Len(lines)
        /\ lines[Len(lines)] = <<"#endif">>

\* C2 as stated: the scenario's initializer is
\*     { "hi", 2, { { {0x01, 0x02,}, 2, }, }, }
C2_AsStated ==
    ScenarioDone =>
        /\ HeaderFields(fs["h"].text) = ScenarioFields
        /\ BehindImplementationMacro(fs["h"].text)
        /\ InitializerTokens(fs["h"].text) =
            << <<"{">>, <<"\"", "h", "i", "\"">>, <<",">>, <<"2">>, <<",">>,
               <<"{">>, <<"{">>, <<"{">>,
               <<"0", "x", "0", "1">>, <<",">>, <<"0", "x", "0", "2">>, <<",">>,
               <<"}">>, <<",">>, <<"2">>, <<",">>, <<"}">>, <<",">>, <<"}">>, <<",">>,
               <<"}">> >>

\* C2, amended: the scenario's header declares a, a_len and the struct sub
\* holding b, b_len, and the initializer behind ASSETS_IMPLEMENTATION is
\*     { "hi", 2, { {0x01, 0x02, }, 2, }, }
\* one brace level for the root, one for sub, one for the bytes of b.
C2_ScenarioInitializer ==
    ScenarioDone =>
        /\ HeaderFields(fs["h"].text) = ScenarioFields
        /\ BehindImplementationMacro(fs["h"].text)
        /\ InitializerTokens(fs["h"].text) =
            << <<"{">>, <<"\"", "h", "i", "\"">>, <<",">>, <<"2">>, <<",">>,
               <<"{">>, <<"{">>,
               <<"0", "x", "0", "1">>, <<",">>, <<"0", "x", "0", "2">>, <<",">>,
               <<"}">>, <<",">>, <<"2">>, <<",">>, <<"}">>, <<",">>,
               <<"}">> >>

C2_Witness == ScenarioDone /\ events = <<"create h", "write h", "write h">>

\* C6: when the directory argument cannot be canonicalized or is not a
\* directory, main goes from testing the argument straight to exit code 1, and no output
\* file is created, truncated or written at any point of the run.
C6_InvalidDirectoryTouchesNothing ==
    arg # "dir" =>
        /\ pc \in {"resolve", "exit"}
        /\ pc = "exit" => exit_code = 1
        /\ events = <<>>
        /\ handle = "none"
        /\ fs = InitialFs(stale)

\* A run on a path that is not a directory has ended, stale outputs in place.
C6_Witness == arg = "file" /\ pc = "exit" /\ exit_code = 1 /\ stale

\* Whether some fragment of the text is frag.
Mentions(text, frag) == \E i \in 1..Len(text) : text[i] = frag

\* The text is a complete header and nothing else: guard, typedef and extern
\* declaration, closed by the guard's #endif; no definition.
OnlyDeclarations(text, name) ==
    LET lines == Lines(text)
    IN  /\ Len(lines) >= 3
        /\ lines[1] = <<"#ifndef ">> \o to_uppercase(name) \o <<"_H">>
        /\ lines[2] = <<"#define ">> \o to_uppercase(name) \o <<"_H">>
        /\ LineStarting(lines, "typedef struct {", 1) < LineStarting(lines, "extern const __", 1)
        /\ LineStarting(lines, "extern const __", 1) < Len(lines)
        /\ lines[Len(lines)] = <<"#endif">>
        /\ ~Mentions(text, "const __")
        /\ ~Mentions(text, "_IMPLEMENTATION")
        /\ ~Mentions(text, " = ")

\* C7: a completed two-file run leaves {base}.h with the declarations only and
\* {base}.c starting with #include "{base}.h", followed by the lines
\* single-file mode puts between its #ifdef and #undef of
\* {BASE}_IMPLEMENTATION, with no mention of that macro; a single-file run
\* never creates {base}.c and writes the implementation to {base}.h after the
\* complete header.
C7_OutputFilesPerMode ==
    /\ (Completed /\ c_file) =>
        LET c == Lines(fs["c"].text)
            single == Lines(generate_impl(impl_dir, output_name, TRUE))
        IN  /\ OnlyDeclarations(fs["h"].text, output_name)
            /\ fs["c"].exists
            /\ c[1] = <<"#include ", "\"">> \o output_name \o <<".h", "\"">>
            /\ Tail(c) = SubSeq(single, 2, Len(single) - 2)
            /\ ~Mentions(fs["c"].text, "_IMPLEMENTATION")
            /\ single[1] = <<"#ifdef ">> \o to_uppercase(output_name)
                               \o <<"_IMPLEMENTATION">>
            /\ single[Len(single) - 1] =
                   <<"#undef ">> \o to_uppercase(output_name) \o <<"_IMPLEMENTATION">>
    /\ ~c_file =>
        /\ fs["c"] = InitialFs(stale)["c"]
        /\ handle # "c"
        /\ Completed =>
            LET text == fs["h"].text
                n == Len(generate_header(dir, output_name))
            IN  /\ n < Len(text)
                /\ OnlyDeclarations(SubSeq(text, 1, n), output_name)
                /\ SubSeq(text, n + 1, Len(text)) =
                       generate_impl(impl_dir, output_name, TRUE)

\* A completed two-file run over a tree with assets.
C7_Witness == Completed /\ c_file /\ Len(dir.children) >= 2 /\ stale

IsPrefix(s, t) == Len(s) <= Len(t) /\ SubSeq(t, 1, Len(s)) = s

\* C9 as stated: in two-file mode both files are created before any text is
\* written, so a run that ends with exit code 1 has written no generated text.
C9_AsStated ==
    /\ c_file =>
        \A i \in 1..Len(events) :
            events[i] \in {"write h", "write c"} =>
                /\ \E j \in 1..(i - 1) : events[j] = "create h"
                /\ \E j \in 1..(i - 1) : events[j] = "create c"
    /\ exit_code = 1 =>
        /\ \A i \in 1..Len(events) : events[i] \notin {"write h", "write c"}
        /\ \A f \in {"h", "c"} : fs[f].text \in {<<>>, <<"stale">>}

\* C9, amended: {base}.h is created before anything is written, so a failure
\* to create it ends the run with exit code 1 and nothing written; in
\* two-file mode {base}.c is created after the header has been written to
\* {base}.h, so a failure to create it ends the run with exit code 1, the
\* complete header in {base}.h and {base}.c untouched.
C9_CreationOrder ==
    /\ IsPrefix(events, IF c_file
                        THEN <<"create h", "write h", "create c", "write c">>
                        ELSE <<"create h", "write h", "write h">>)
    /\ (exit_code = 1 /\ arg = "dir") =>
        \/ events = <<>> /\ fs = InitialFs(stale)
        \/ /\ c_file
           /\ events = <<"create h", "write h">>
           /\ OnlyDeclarations(fs["h"].text, output_name)
           /\ fs["c"] = InitialFs(stale)["c"]

\* A two-file run ended with exit code 1 because {base}.c could not be created.
C9_Witness ==
    /\ exit_code = 1 /\ c_file /\ events = <<"create h", "write h">>
    /\ Len(dir.children) >= 1

---------------------------------------------------------------------------
(* One asset through both passes: struct_fieldify, then                    *)
(* struct_fieldify_impl, on the same file.                                 *)

RECURSIVE SeqsUpTo(_, _)
\* The sequences over S of length at most n.
SeqsUpTo(S, n) ==
    IF n = 0 THEN {<<>>}
    ELSE LET shorter == SeqsUpTo(S, n - 1)
         IN  shorter \cup {Append(q, x) : q \in shorter, x \in S}

\* File names: every extension below behind each stem, and names that have
\* no extension ("a", "txt", ".txt").
InputStems == { <<"a">>, <<"a", ".", "b">>, <<"m", "y", "-", "a">>, <<".", "j", "s">> }
InputExtensions ==
    { <<"t", "x", "t">>, <<"j", "s", "o", "n">>, <<"x", "m", "l">>,
      <<"c", "s", "v">>, <<"h", "t", "m", "l">>, <<"h", "t", "m">>,
      <<"c", "s", "s">>, <<"j", "s">>, <<"m", "d">>, <<"t", "o", "m", "l">>,
      <<"r", "s">>, <<"g", "l", "s", "l">>, <<"f", "r", "a", "g">>,
      <<"v", "e", "r", "t">>,
      <<"b", "i", "n">>, <<"T", "X", "T">>, <<"t", "x">>, <<"t", "x", "t", "x">>,
      <<"t", "x", "t", "<FF>">>, <<"h">>, <<>> }
InputNames ==
    {st \o <<".">> \o e : st \in InputStems, e \in InputExtensions}
    \cup { <<"a">>, <<"t", "x", "t">>, <<".", "t", "x", "t">>, <<".", "m", "d">> }

\* Contents of text files: every byte string over a few ASCII characters, the
\* four characters the source escapes, the backslash, and the two bytes of a
\* two-byte UTF-8 character (which alone or out of order are not UTF-8).
TextBytes == {104, 110, 9, 10, 13, 34, 92, 195, 169}
InputTexts == SeqsUpTo(TextBytes, MaxStrLen)

\* Contents of binary files: arithmetic progressions of bytes modulo 256.
InputBlobs ==
    { [i \in 1..n |-> (start + (i - 1) * stride) % 256] :
        n \in 0..MaxBytes, start \in {0, 9, 171, 250}, stride \in {1, 37} }

AssetInputs ==
    {File(n, <<104, 105>>) : n \in InputNames}
    \cup {File(<<"a", ".", "t", "x", "t">>, c) : c \in InputTexts}
    \cup {File(<<"b", ".", "b", "i", "n">>, c) : c \in InputBlobs}

\* The header pass reaches the file (line 111 or 141).
Declare ==
    /\ apc = "start"
    /\ decl' = struct_fieldify(asset)
    /\ apc' = "declared"
    /\ UNCHANGED <<asset, init>>

\* The implementation pass reaches the file (line 192 or 221); the unwrap of
\* read_to_string panics on contents that are not UTF-8.
Initialize ==
    /\ apc = "declared"
    /\ IF guess_from_filepath(asset.name) = "String" /\ ~read_to_string_ok(asset.contents)
       THEN apc' = "panic" /\ UNCHANGED init
       ELSE apc' = "done" /\ init' = struct_fieldify_impl(asset)
    /\ UNCHANGED <<asset, decl>>

AssetInit ==
    /\ apc = "start"
    /\ asset \in AssetInputs
    /\ decl = <<>>
    /\ init = <<>>
    /\ IdleRun
    /\ IdleTu

AssetNext ==
    \/ Declare /\ UNCHANGED <<runVars, tuVars>>
    \/ Initialize /\ UNCHANGED <<runVars, tuVars>>

AssetSpec == AssetInit /\ [][AssetNext]_vars

---------------------------------------------------------------------------
(* Claims about one asset. *)

\* Value of a lower-case hex digit, -1 for any other character.
HexValue(c) ==
    IF \E v \in 1..16 : HexDigits[v] = c
    THEN (CHOOSE v \in 1..16 : HexDigits[v] = c) - 1
    ELSE -1

\* Value of a 0xhh literal, -1 for any other token.
HexLiteral(tok) ==
    IF /\ Len(tok) = 4 /\ tok[1] = "0" /\ tok[2] = "x"
       /\ HexValue(tok[3]) >= 0 /\ HexValue(tok[4]) >= 0
    THEN 16 * HexValue(tok[3]) + HexValue(tok[4])
    ELSE -1

RECURSIVE DecimalValue(_)
\* Value of a sequence of decimal digits, -1 when it is not one.
DecimalValue(tok) ==
    LET n == Len(tok)
        d == IF \E v \in 1..10 : Digits[v] = tok[n]
             THEN (CHOOSE v \in 1..10 : Digits[v] = tok[n]) - 1
             ELSE -1
    IN  IF n = 0 \/ d < 0 THEN -1
        ELSE IF n = 1 THEN d
        ELSE IF DecimalValue(SubSeq(tok, 1, n - 1)) < 0 THEN -1
        ELSE 10 * DecimalValue(SubSeq(tok, 1, n - 1)) + d

\* Every second token of a list, from the first on.
OddTokens(toks) == [i \in 1..((Len(toks) + 1) \div 2) |-> toks[2 * i - 1]]

\* Number of fragments of the line that are frag.
Occurrences(line, frag) == Cardinality({i \in 1..Len(line) : line[i] = frag})

IsBytesAsset == guess_from_filepath(asset.name) = "Bytes"
IsStringAsset == guess_from_filepath(asset.name) = "String"

\* C3: for a Bytes asset the hex literals between the braces, decoded in
\* order, are the bytes of the file: one 0xhh literal per byte, each followed
\* by a comma, at most 16 to a line; the length value after the closing brace
\* is the number of bytes.
C3_BytesRoundTrip ==
    (apc = "done" /\ IsBytesAsset) =>
        LET toks == Tokens(init)
            close == IndexFrom(toks, <<"}">>, 1)
            body == SubSeq(toks, 2, close - 1)
            literals == OddTokens(body)
            lines == Lines(init)
        IN  /\ toks[1] = <<"{">>
            /\ Len(body) = 2 * Len(asset.contents)
            /\ \A i \in 1..Len(body) : (i % 2 = 0) => body[i] = <<",">>
            /\ [i \in 1..Len(literals) |-> HexLiteral(literals[i])] = asset.contents
            /\ Len(toks) = close + 3
            /\ toks[close + 1] = <<",">>
            /\ DecimalValue(toks[close + 2]) = Len(asset.contents)
            /\ toks[close + 3] = <<",">>
            /\ \A i \in 1..Len(lines) : Occurrences(lines[i], "x") <= BYTES_PER_LINE

\* A Bytes asset longer than one line of literals, with a byte below 0x10,
\* has been through both passes.
C3_Witness ==
    /\ apc = "done" /\ IsBytesAsset
    /\ Len(asset.contents) > BYTES_PER_LINE
    /\ \E i \in 1..Len(asset.contents) : asset.contents[i] < 16

\* The bytes the four passes replace.
EscapedBytes == {10, 13, 9, 34}

\* C4: for a String asset the length value emitted is the number of bytes
\* between the quotes of the emitted literal, which is the length of the raw
\* contents plus one for every newline, carriage return, tab and double
\* quote in them; so it is at least the raw length (the size the header
\* declares, plus 1 for the terminator), and equal to it exactly when the
\* contents hold none of the four.
C4_StringLenIsEscapedLen ==
    (apc = "done" /\ IsStringAsset) =>
        LET lines == Lines(init)
            literal == lines[1]
            emitted == DecimalValue(SubSeq(lines[2], 1, Len(lines[2]) - 1))
            raw == Len(asset.contents)
            special == Cardinality({i \in 1..raw : asset.contents[i] \in EscapedBytes})
            declared == SubSeq(decl, IndexFrom(decl, "[", 1) + 1,
                               IndexFrom(decl, " + 1];", 1) - 1)
        IN  /\ Len(lines) = 2
            /\ literal[1] = "\"" /\ literal[Len(literal) - 1] = "\""
            /\ literal[Len(literal)] = ","
            /\ emitted = Len(literal) - 3
            /\ emitted = raw + special
            /\ Chars(Escaped(asset.contents)) = SubSeq(literal, 2, Len(literal) - 2)
            /\ emitted >= raw
            /\ (emitted = raw) <=> (special = 0)
            /\ DecimalValue(declared) = raw

\* A String asset with escaped and unescaped characters has been through both
\* passes.
C4_Witness ==
    /\ apc = "done" /\ IsStringAsset
    /\ \E i, j \in 1..Len(asset.contents) :
        asset.contents[i] = 10 /\ asset.contents[j] = 104

\* The extensions the claim lists.
C5_StringExtensions ==
    { <<"t", "x", "t">>, <<"j", "s", "o", "n">>, <<"x", "m", "l">>,
      <<"c", "s", "v">>, <<"h", "t", "m", "l">>, <<"h", "t", "m">>,
      <<"c", "s", "s">>, <<"j", "s">>, <<"m", "d">>, <<"t", "o", "m", "l">>,
      <<"r", "s">>, <<"g", "l", "s", "l">>, <<"f", "r", "a", "g">>,
      <<"v", "e", "r", "t">> }

\* The name is a non-empty stem, a dot and the extension e.
HasExtension(name, e) ==
    /\ Len(name) > Len(e) + 1
    /\ SubSeq(name, Len(name) - Len(e), Len(name)) = <<".">> \o e

\* C5: a file is a String asset exactly when its name ends in a dot and one
\* of the listed extensions (after a non-empty stem), and a Bytes asset
\* otherwise; the header declares a const char array exactly for those names
\* and a const uint8_t array for the others, and the implementation pass
\* initializes the first by a string literal and the second by a byte list.
C5_KindByExtension ==
    LET listed == \E e \in C5_StringExtensions : HasExtension(asset.name, e)
    IN  /\ apc # "idle" =>
            /\ guess_from_filepath(asset.name) = "String" <=> listed
            /\ guess_from_filepath(asset.name) = "Bytes" <=> ~listed
        /\ apc \in {"declared", "done", "panic"} =>
            /\ decl[1] = "const char " <=> listed
            /\ decl[1] = "const uint8_t " <=> ~listed
        /\ apc = "done" =>
            /\ init[1] = "\"" <=> listed
            /\ init[1] = "{" <=> ~listed

\* Both passes have handled a file with a listed extension behind a stem
\* that itself holds a dot.
C5_Witness ==
    /\ apc = "done"
    /\ asset.name = <<"a", ".", "b", ".", "h", "t", "m">>
    /\ decl[1] = "const char "

\* The byte a character of the output stands for.
ByteOf(c) == CHOOSE b \in DOMAIN CharOf : CharOf[b] = c

RECURSIVE CString(_, _)
\* A C compiler's reading of a string literal whose characters start at j:
\* the bytes it denotes and whether a quote closes it before the line ends.
\* A backslash and the next character are one escape sequence.
CString(text, j) ==
    IF j > Len(text) \/ text[j] = "\n" THEN [closed |-> FALSE, bytes |-> <<>>]
    ELSE IF text[j] = "\"" THEN [closed |-> TRUE, bytes |-> <<>>]
    ELSE IF text[j] = "\\"
    THEN IF j + 1 > Len(text) \/ text[j + 1] = "\n"
         THEN [closed |-> FALSE, bytes |-> <<>>]
         ELSE LET rest == CString(text, j + 2)
                  e == text[j + 1]
                  b == CASE e = "n" -> 10
                         [] e = "r" -> 13
                         [] e = "t" -> 9
                         [] OTHER -> ByteOf(e)
              IN  [closed |-> rest.closed, bytes |-> <<b>> \o rest.bytes]
    ELSE LET rest == CString(text, j + 1)
         IN  [closed |-> rest.closed, bytes |-> <<ByteOf(text[j])>> \o rest.bytes]

\* C10: for a String asset the emitted literal, read by the C escape rules,
\* is a closed literal that denotes exactly the bytes of the file.
C10_StringRoundTrip ==
    (apc = "done" /\ IsStringAsset) =>
        /\ init[1] = "\""
        /\ CString(init, 2).closed
        /\ CString(init, 2).bytes = asset.contents

---------------------------------------------------------------------------
(* A C translation unit that includes the single-file output, once or      *)
(* several times, and defines {BASE}_IMPLEMENTATION before one of the      *)
(* includes.  The C preprocessor reads the file main wrote, line by line.  *)

\* The macro a consumer defines to get the definition.
ImplementationMacro(name) == to_uppercase(name) \o <<"_IMPLEMENTATION">>

\* Whether the lines under the innermost open conditional are processed.
Active(stack) == stack = <<>> \/ stack[Len(stack)]

\* What the compiler sees on a line the preprocessor passes on to it.
Declares(line) ==
    LET d == IF line = <<>> THEN "" ELSE line[1]
    IN  IF d = "typedef struct {" THEN <<"typedef">>
        ELSE IF d = "extern const __" THEN <<"extern">>
        ELSE IF d = "const __" THEN <<"definition">>
        ELSE <<>>

\* The consumer writes #define {BASE}_IMPLEMENTATION, once, outside the header.
ConsumerDefine ==
    /\ tu_line = 0
    /\ tu_defined_at = -1
    /\ tu_macros' = tu_macros \cup {ImplementationMacro(output_name)}
    /\ tu_defined_at' = tu_includes
    /\ UNCHANGED <<tu_log, tu_includes, tu_line, tu_stack>>

\* The consumer writes #include "{base}.h": the preprocessor enters the file.
BeginInclude ==
    /\ tu_line = 0
    /\ tu_includes < MaxIncludes
    /\ tu_includes' = tu_includes + 1
    /\ tu_line' = 1
    /\ UNCHANGED <<tu_macros, tu_log, tu_defined_at, tu_stack>>

\* The preprocessor handles the next line of the file: a conditional opens or
\* closes, a macro is defined or undefined, or the line goes to the compiler
\* if no enclosing conditional is false.  (#include <...> of the two standard
\* headers defines none of the macros of the file.)  After the last line the
\* preprocessor is back in the consumer's source.
PreprocessLine ==
    /\ tu_line >= 1
    /\ LET lines == Lines(fs["h"].text)
           l == lines[tu_line]
           d == IF l = <<>> THEN "" ELSE l[1]
           on == Active(tu_stack)
       IN  /\ tu_macros' =
                 IF on /\ d = "#define " THEN tu_macros \cup {Tail(l)}
                 ELSE IF on /\ d = "#undef " THEN tu_macros \ {Tail(l)}
                 ELSE tu_macros
           /\ tu_stack' =
                 IF d = "#ifndef " THEN Append(tu_stack, on /\ Tail(l) \notin tu_macros)
                 ELSE IF d = "#ifdef " THEN Append(tu_stack, on /\ Tail(l) \in tu_macros)
                 ELSE IF d = "#endif" THEN SubSeq(tu_stack, 1, Len(tu_stack) - 1)
                 ELSE tu_stack
           /\ tu_log' =
                 IF on
                 THEN tu_log \o [i \in 1..Len(Declares(l)) |->
                                    [what |-> Declares(l)[i], at |-> tu_includes]]
                 ELSE tu_log
           /\ tu_line' = IF tu_line = Len(lines) THEN 0 ELSE tu_line + 1
    /\ UNCHANGED <<tu_includes, tu_defined_at>>

\* The trees whose single-file output is included.
IncludedTrees ==
    { Dir(DirName, <<>>), ScenarioTree, Reversed(ScenarioTree),
      Dir(DirName, << File(<<"c", "-", "d", ".", "m", "d">>, <<104, 34, 10>>) >>) }

\* The state a completed single-file run leaves, then a translation unit that
\* has included nothing yet, compiled as C or as C++.
IncludeInit ==
    /\ pc = "exit" /\ exit_code = 0 /\ arg = "dir" /\ stale = FALSE
    /\ dir \in IncludedTrees /\ impl_dir = dir
    /\ c_file = FALSE /\ output \in {<<>>, <<OutName>>}
    /\ output_name = IF output # <<>> THEN output[1] ELSE file_stem(dir.name)
    /\ handle = "h"
    /\ fs = [InitialFs(FALSE) EXCEPT
                !["h"] = [exists |-> TRUE,
                          text |-> generate_header(dir, output_name)
                                   \o generate_impl(impl_dir, output_name, TRUE)]]
    /\ events = <<"create h", "write h", "write h">>
    /\ IdleAsset
    /\ tu_macros \in {{}, {<<"__cplusplus">>}}
    /\ tu_log = <<>>
    /\ tu_includes = 0
    /\ tu_line = 0
    /\ tu_stack = <<>>
    /\ tu_defined_at = -1

IncludeNext ==
    \/ ConsumerDefine /\ UNCHANGED <<runVars, assetVars>>
    \/ BeginInclude /\ UNCHANGED <<runVars, assetVars>>
    \/ PreprocessLine /\ UNCHANGED <<runVars, assetVars>>

IncludeSpec == IncludeInit /\ [][IncludeNext]_vars

\* The entries of the log that record `what`.
Seen(what) == {i \in 1..Len(tu_log) : tu_log[i].what = what}

\* The preprocessor is in the consumer's source, after `n` complete includes.
BetweenIncludes == tu_line = 0

\* The macro was defined before an include that is complete.
DefinedBeforeAnInclude == tu_defined_at >= 0 /\ tu_includes > tu_defined_at

\* C8: however often the header is included, with the macro defined before
\* one of the includes, the typedef and the extern declaration are processed
\* once, by the first include; the definition is processed once, by the first
\* include after the macro was defined (which undefines the macro), and never
\* before the typedef; every conditional the file opens it closes.
C8_IncludeOnceSemantics ==
    /\ Cardinality(Seen("typedef")) <= 1
    /\ Cardinality(Seen("extern")) <= 1
    /\ Cardinality(Seen("definition")) <= 1
    /\ \A i \in Seen("typedef") \cup Seen("extern") : tu_log[i].at = 1
    /\ \A i \in Seen("definition") :
        /\ tu_log[i].at = tu_defined_at + 1
        /\ \E j \in Seen("typedef") : j < i
        /\ \E j \in Seen("extern") : j < i
    /\ BetweenIncludes =>
        /\ tu_stack = <<>>
        /\ Cardinality(Seen("typedef")) = IF tu_includes >= 1 THEN 1 ELSE 0
        /\ Cardinality(Seen("extern")) = IF tu_includes >= 1 THEN 1 ELSE 0
        /\ Cardinality(Seen("definition")) = IF DefinedBeforeAnInclude THEN 1 ELSE 0
        /\ DefinedBeforeAnInclude => ImplementationMacro(output_name) \notin tu_macros

\* The header was included, the macro defined, and the header included twice
\* more.
C8_Witness ==
    /\ BetweenIncludes
    /\ tu_defined_at = 1
    /\ tu_includes >= 3
    /\ Cardinality(Seen("definition")) = 1
    /\ dir = ScenarioTree

=============================================================================
